---- MODULE Spec2Model ----
(***************************************************************************)
(* Multi-room chat relay (src/src/lib.rs, src/src/api.rs).                 *)
(*                                                                         *)
(* One task per connection walks upgrade_connection -> get_room ->         *)
(* user_connected -> user_disconnected; one writer task per ChatRoom       *)
(* object consumes the room's logging channel.  The tasks run in parallel, *)
(* so every action holds one access to shared state: one critical section  *)
(* of an RwLock (no await inside it), one atomic operation or one channel  *)
(* operation, together with the task-local code around it.                 *)
(***************************************************************************)
EXTENDS Integers, Sequences, FiniteSets, TLC

\* ---------------------------------------------------------------- bounds
NumConns == 3      \* connections of SpecSessions
MaxOpen == 2       \* connections of Spec, where the writer tasks run too
MaxFrames == 3     \* inbound websocket frames received in total under Spec
SessFrames == 1    \* inbound websocket frames received in total under SpecSessions and SpecShutdown
MaxFaults == 1     \* I/O faults (File::create, write_all, flush) injected in total

Conns == 1..NumConns
RoomIds == 1..NumConns          \* ChatRoom objects: a connection allocates at most one
Names == {"lobby", "other"}     \* room names of the path /chat/{name}
Texts == {"hi", "x"}            \* payloads of text frames
NoPath == "/chat"               \* a path without room segment
NoRoom == 0                     \* maybe_room is None

VARIABLES
    pc,            \* position of each connection's task
    path,          \* room_name extracted from the request path
    room,          \* the Arc<ChatRoom> get_room handed the task, held until pc is "done"
    my_id,         \* id drawn from NEXT_USER_ID (0: not drawn yet)
    cur,           \* text of the frame being handled between log_message and user_message
    sink,          \* messages sent into the connection's outbound channel tx, in order
    NEXT_USER_ID,  \* the global id counter
    rooms,         \* ChatRooms: name -> Weak<ChatRoom>
    nrooms,        \* ChatRoom objects allocated so far
    room_name,     \* ChatRoom.name
    strong,        \* Arc strong count of each ChatRoom
    users,         \* ChatRoom.users: id -> tx (the connection owning the channel)
    dropped,       \* Drop for ChatRoom has run
    log_chan,      \* every line sent into logging_tx, in order
    log_pos,       \* how many of them the writer task has taken from rx
    cancel_chan,   \* signals pending in the cancellation channel
    writer,        \* position of the room's writer task
    file,          \* lines written through log_writer, in order
    flushed,       \* log_writer.flush() returned Ok
    frames,        \* inbound frames received so far
    faults,        \* I/O faults injected so far
    wlock,         \* the task holding the write guard of the ChatRooms lock (0: none)
    rlock,         \* the tasks holding a read guard of the ChatRooms lock
    inbound,       \* payloads of the text frames each task took from user_ws_rx, in order
    ws_pos,        \* how many messages each forward task has taken from its rx
    ws_out         \* messages each forward task handed to user_ws_tx.send, in order

connVars == <<pc, path, room, my_id, cur, sink, NEXT_USER_ID, frames>>
roomVars == <<rooms, nrooms, room_name, strong, users, dropped>>
logVars == <<log_chan, log_pos, cancel_chan, writer, file, flushed, faults>>
lockVars == <<wlock, rlock>>
wsVars == <<inbound, ws_pos, ws_out>>
vars == <<connVars, roomVars, logVars, lockVars, wsVars>>

EmptyMap == [k \in {} |-> 0]

\* ------------------------------------------------------------ formatting
SENTINEL == "!!!ATTEMPTED TO SEND NON-TEXT MESSAGE!!!"

\* format!("Channel {}, user {}: {}", &self.name, user_id, msg)
FormatLine(name, user_id, msg) == <<"Channel ", name, ", user ", user_id, ": ", msg>>

\* format!("{}\n", message)
FormatRecord(line) == Append(line, "\n")

\* format!("<User#{}>: {}", my_id, msg)
FormatMsg(id, msg) == <<"<User#", id, ">: ", msg>>

\* ---------------------------------------------------------------- frames
TextFrame(t) == [kind |-> "text", body |-> t]
BinaryFrame == [kind |-> "binary", body |-> ""]
Frames == {TextFrame(t) : t \in Texts} \cup {BinaryFrame}

is_text(f) == f.kind = "text"
to_str(f) == IF f.kind = "text" THEN <<"Ok", f.body>> ELSE <<"Err">>

\* -------------------------------------------------------------- registry
\* mutant of Retain: nothing is pruned
RetainAll(m) == m

\* HashMap::retain(|_, room_ptr| room_ptr.strong_count() > 0)
Retain(m) ==
    LET keep == {n \in DOMAIN m : strong[m[n]] > 0}
    IN [n \in keep |-> m[n]]

\* mutant of Upgrade: the strong count is not consulted
UpgradeDead(r) == r

\* Weak::upgrade: the room if an owner is left, None otherwise
Upgrade(r) == IF strong[r] > 0 THEN r ELSE NoRoom

\* rooms.read().await.get(room_name) followed by upgrade
Lookup(m, n) == IF n \in DOMAIN m THEN Upgrade(m[n]) ELSE NoRoom

\* mutant of Insert: the entry is not stored
InsertNothing(m, k, v) == m

\* HashMap::insert: a present key is overwritten
Insert(m, k, v) == [x \in DOMAIN m \cup {k} |-> IF x = k THEN v ELSE m[x]]

\* mutant of Remove: the entry stays
RemoveNothing(m, k) == m

\* HashMap::remove
Remove(m, k) == [x \in DOMAIN m \ {k} |-> m[x]]

\* --------------------------------------------------------------- channels
\* mutant of Send: the message is put at the head of the queue
SendFront(q, m) == <<m>> \o q

\* mpsc::UnboundedSender::send: the message is queued behind those already sent
Send(q, m) == Append(q, m)

\* the receiver of the room's channels is gone once the writer task ended
ReceiverGone(r) == writer[r] \in {"panicked", "stopped"}

\* mpsc::UnboundedSender::send on logging_tx: Err when the receiver is gone
SendLine(r, line) ==
    IF ReceiverGone(r) THEN log_chan ELSE [log_chan EXCEPT ![r] = Send(@, line)]

\* ChatRoom::log_message
log_message(r, msg, user_id) == SendLine(r, FormatLine(room_name[r], user_id, msg))

\* mutant of Recipients: the sender's own entry is not skipped
RecipientsWithSender(u, id) == DOMAIN u

\* the occupants a broadcast of my_id iterates over: if my_id != uid
Recipients(u, id) == {uid \in DOMAIN u : id /= uid}

\* mutant of RoomUsers: one user map shared by all rooms
AllUsers(r) ==
    LET ids == UNION {DOMAIN users[x] : x \in RoomIds}
    IN [id \in ids |-> CHOOSE c \in Conns : \E x \in RoomIds : id \in DOMAIN users[x] /\ users[x][id] = c]

\* &room.users, the map user_message iterates
RoomUsers(r) == users[r]

\* the sinks after user_message: one tx.send per recipient
Broadcast(id, msg, u) ==
    LET to == {u[uid] : uid \in Recipients(u, id)}
    IN [c \in Conns |-> IF c \in to THEN Send(sink[c], FormatMsg(id, msg)) ELSE sink[c]]

\* mutant of DropArc: the cancel notice is sent by every owner that lets go
DropArcEvery(r) ==
    /\ strong' = [strong EXCEPT ![r] = @ - 1]
    /\ dropped' = [dropped EXCEPT ![r] = (strong[r] = 1)]
    /\ cancel_chan' = [cancel_chan EXCEPT ![r] = IF ReceiverGone(r) THEN @ ELSE @ + 1]

\* Dropping one Arc<ChatRoom>: the last owner runs Drop for ChatRoom, which
\* sends the cancel notice (Err when the receiver is gone) and then drops
\* logging_tx and cancellation_tx.
DropArc(r) ==
    /\ strong' = [strong EXCEPT ![r] = @ - 1]
    /\ IF strong[r] = 1
       THEN /\ dropped' = [dropped EXCEPT ![r] = TRUE]
            /\ cancel_chan' = [cancel_chan EXCEPT ![r] = IF ReceiverGone(r) THEN @ ELSE @ + 1]
       ELSE UNCHANGED <<dropped, cancel_chan>>

\* ------------------------------------------------------------------ Init
Init ==
    /\ pc = [c \in Conns |-> "idle"]
    /\ path = [c \in Conns |-> NoPath]
    /\ room = [c \in Conns |-> NoRoom]
    /\ my_id = [c \in Conns |-> 0]
    /\ cur = [c \in Conns |-> ""]
    /\ sink = [c \in Conns |-> <<>>]
    /\ NEXT_USER_ID = 1
    /\ rooms = EmptyMap
    /\ nrooms = 0
    /\ room_name = [r \in RoomIds |-> ""]
    /\ strong = [r \in RoomIds |-> 0]
    /\ users = [r \in RoomIds |-> EmptyMap]
    /\ dropped = [r \in RoomIds |-> FALSE]
    /\ log_chan = [r \in RoomIds |-> <<>>]
    /\ log_pos = [r \in RoomIds |-> 0]
    /\ cancel_chan = [r \in RoomIds |-> 0]
    /\ writer = [r \in RoomIds |-> "none"]
    /\ file = [r \in RoomIds |-> <<>>]
    /\ flushed = [r \in RoomIds |-> FALSE]
    /\ frames = 0
    /\ faults = 0
    /\ wlock = 0
    /\ rlock = {}
    /\ inbound = [c \in Conns |-> <<>>]
    /\ ws_pos = [c \in Conns |-> 0]
    /\ ws_out = [c \in Conns |-> <<>>]

\* ----------------------------------------------------------------- ids
\* mutant of fetch_add: the counter is read and not advanced
fetch_load(x) == x

\* NEXT_USER_ID.fetch_add(1, Ordering::Relaxed): the value left in the counter
fetch_add(x) == x + 1

\* ------------------------------------------------------------- api layer
\* mutant of ws_reject: the registry is pruned before the path is matched
ws_reject_pruning(c) ==
    /\ pc[c] = "idle"
    /\ rooms' = Retain(rooms)
    /\ pc' = [pc EXCEPT ![c] = "rejected"]
    /\ UNCHANGED <<path, room, my_id, cur, sink, NEXT_USER_ID, frames>>
    /\ UNCHANGED <<nrooms, room_name, strong, users, dropped, logVars>>
    /\ UNCHANGED lockVars
    /\ UNCHANGED wsVars

\* warp::path!("chat" / String) does not match: the request is rejected
ws_reject(c) ==
    /\ pc[c] = "idle"
    /\ pc' = [pc EXCEPT ![c] = "rejected"]
    /\ UNCHANGED <<path, room, my_id, cur, sink, NEXT_USER_ID, frames, roomVars, logVars>>
    /\ UNCHANGED lockVars
    /\ UNCHANGED wsVars

\* upgrade_connection -> get_room, first critical section: prune
get_room_prune(c, n) ==
    /\ pc[c] = "idle"
    /\ path' = [path EXCEPT ![c] = n]
    /\ rooms' = Retain(rooms)
    /\ pc' = [pc EXCEPT ![c] = "lookup"]
    /\ UNCHANGED <<room, my_id, cur, sink, NEXT_USER_ID, frames>>
    /\ UNCHANGED <<nrooms, room_name, strong, users, dropped, logVars>>
    /\ UNCHANGED lockVars
    /\ UNCHANGED wsVars

\* the lookup under rooms.read() with the upgrade of the weak reference, and
\* on a miss ChatRoom::new, which builds the room and spawns its writer task
lookup_or_new(c) ==
    /\ LET maybe_room == Lookup(rooms, path[c]) IN
       IF maybe_room /= NoRoom
       THEN /\ room' = [room EXCEPT ![c] = maybe_room]
            /\ strong' = [strong EXCEPT ![maybe_room] = @ + 1]
            /\ pc' = [pc EXCEPT ![c] = "upgrade"]
            /\ UNCHANGED <<nrooms, room_name, writer>>
       ELSE LET r == nrooms + 1 IN
            /\ nrooms' = r
            /\ room_name' = [room_name EXCEPT ![r] = path[c]]
            /\ strong' = [strong EXCEPT ![r] = 1]
            /\ writer' = [writer EXCEPT ![r] = "create"]
            /\ room' = [room EXCEPT ![c] = r]
            /\ pc' = [pc EXCEPT ![c] = "insert"]
    /\ UNCHANGED <<path, my_id, cur, sink, NEXT_USER_ID, frames, rooms, users, dropped>>
    /\ UNCHANGED <<log_chan, log_pos, cancel_chan, file, flushed, faults>>

\* get_room, second critical section: lookup and upgrade, or a new room
get_room_lookup(c) ==
    /\ pc[c] = "lookup"
    /\ lookup_or_new(c)
    /\ UNCHANGED lockVars
    /\ UNCHANGED wsVars

\* get_room, third critical section: insert the weak reference
get_room_insert(c) ==
    /\ pc[c] = "insert"
    /\ rooms' = Insert(rooms, path[c], room[c])
    /\ pc' = [pc EXCEPT ![c] = "upgrade"]
    /\ UNCHANGED <<path, room, my_id, cur, sink, NEXT_USER_ID, frames>>
    /\ UNCHANGED <<nrooms, room_name, strong, users, dropped, logVars>>
    /\ UNCHANGED lockVars
    /\ UNCHANGED wsVars

\* ws.on_upgrade: the handshake succeeded and user_connected starts
on_upgrade(c) ==
    /\ pc[c] = "upgrade"
    /\ my_id' = [my_id EXCEPT ![c] = NEXT_USER_ID]
    /\ NEXT_USER_ID' = fetch_add(NEXT_USER_ID)
    /\ pc' = [pc EXCEPT ![c] = "attach"]
    /\ UNCHANGED <<path, room, cur, sink, frames, roomVars, logVars>>
    /\ UNCHANGED lockVars
    /\ UNCHANGED wsVars

\* the handshake failed: the on_upgrade closure and its Arc are dropped
upgrade_failed(c) ==
    /\ pc[c] = "upgrade"
    /\ DropArc(room[c])
    /\ pc' = [pc EXCEPT ![c] = "done"]
    /\ UNCHANGED <<path, room, my_id, cur, sink, NEXT_USER_ID, frames>>
    /\ UNCHANGED <<rooms, nrooms, room_name, users>>
    /\ UNCHANGED <<log_chan, log_pos, writer, file, flushed, faults>>
    /\ UNCHANGED lockVars
    /\ UNCHANGED wsVars

\* room.users.write().await.insert(my_id, tx)
user_connected(c) ==
    /\ pc[c] = "attach"
    /\ users' = [users EXCEPT ![room[c]] = Insert(@, my_id[c], c)]
    /\ pc' = [pc EXCEPT ![c] = "loop"]
    /\ UNCHANGED <<path, room, my_id, cur, sink, NEXT_USER_ID, frames>>
    /\ UNCHANGED <<rooms, nrooms, room_name, strong, dropped, logVars>>
    /\ UNCHANGED lockVars
    /\ UNCHANGED wsVars

\* mutant of recv_frame: a text frame whose transcript submission fails ends
\* the receive loop
recv_frame_strict(c, f, max) ==
    /\ pc[c] = "loop"
    /\ frames < max
    /\ frames' = frames + 1
    /\ IF is_text(f)
       THEN /\ log_chan' = log_message(room[c], f.body, my_id[c])
            /\ IF ReceiverGone(room[c])
               THEN /\ pc' = [pc EXCEPT ![c] = "disconnect"]
                    /\ UNCHANGED cur
               ELSE /\ cur' = [cur EXCEPT ![c] = f.body]
                    /\ pc' = [pc EXCEPT ![c] = "message"]
       ELSE UNCHANGED <<log_chan, cur, pc>>
    /\ UNCHANGED <<path, room, my_id, sink, NEXT_USER_ID, roomVars>>
    /\ UNCHANGED <<log_pos, cancel_chan, writer, file, flushed, faults>>
    /\ UNCHANGED lockVars
    /\ inbound' = [inbound EXCEPT ![c] = IF is_text(f) THEN Append(@, f.body) ELSE @]
    /\ UNCHANGED <<ws_pos, ws_out>>

\* one frame from user_ws_rx, of at most max in total: a text frame is logged and then broadcast; the
\* sentinel is logged when a frame that is_text() fails to_str()
recv_frame(c, f, max) ==
    /\ pc[c] = "loop"
    /\ frames < max
    /\ frames' = frames + 1
    /\ IF is_text(f)
       THEN IF to_str(f)[1] = "Ok"
            THEN /\ log_chan' = log_message(room[c], to_str(f)[2], my_id[c])
                 /\ cur' = [cur EXCEPT ![c] = to_str(f)[2]]
                 /\ pc' = [pc EXCEPT ![c] = "message"]
            ELSE /\ log_chan' = log_message(room[c], SENTINEL, my_id[c])
                 /\ UNCHANGED <<cur, pc>>
       ELSE UNCHANGED <<log_chan, cur, pc>>
    /\ UNCHANGED <<path, room, my_id, sink, NEXT_USER_ID, roomVars>>
    /\ UNCHANGED <<log_pos, cancel_chan, writer, file, flushed, faults>>
    /\ UNCHANGED lockVars
    /\ inbound' = [inbound EXCEPT ![c] = IF is_text(f) THEN Append(@, f.body) ELSE @]
    /\ UNCHANGED <<ws_pos, ws_out>>

\* mutant of user_message: the fan-out evicts the entries of sessions whose
\* stream has ended
user_message_evicting(c) ==
    /\ pc[c] = "message"
    /\ sink' = Broadcast(my_id[c], cur[c], RoomUsers(room[c]))
    /\ users' = [users EXCEPT ![room[c]] =
                   [id \in {i \in DOMAIN @ : pc[@[i]] /= "disconnect"} |-> @[id]]]
    /\ cur' = [cur EXCEPT ![c] = ""]
    /\ pc' = [pc EXCEPT ![c] = "loop"]
    /\ UNCHANGED <<path, room, my_id, NEXT_USER_ID, frames, logVars>>
    /\ UNCHANGED <<rooms, nrooms, room_name, strong, dropped>>
    /\ UNCHANGED lockVars
    /\ UNCHANGED wsVars

\* user_message: the fan-out under users.read()
user_message(c) ==
    /\ pc[c] = "message"
    /\ sink' = Broadcast(my_id[c], cur[c], RoomUsers(room[c]))
    /\ cur' = [cur EXCEPT ![c] = ""]
    /\ pc' = [pc EXCEPT ![c] = "loop"]
    /\ UNCHANGED <<path, room, my_id, NEXT_USER_ID, frames, roomVars, logVars>>
    /\ UNCHANGED lockVars
    /\ UNCHANGED wsVars

\* user_ws_rx.next() is None: the peer closed the stream
recv_close(c) ==
    /\ pc[c] = "loop"
    /\ pc' = [pc EXCEPT ![c] = "disconnect"]
    /\ UNCHANGED <<path, room, my_id, cur, sink, NEXT_USER_ID, frames, roomVars, logVars>>
    /\ UNCHANGED lockVars
    /\ UNCHANGED wsVars

\* mutant of recv_error: the error path returns without user_disconnected
recv_error_return(c) ==
    /\ pc[c] = "loop"
    /\ pc' = [pc EXCEPT ![c] = "return"]
    /\ UNCHANGED <<path, room, my_id, cur, sink, NEXT_USER_ID, frames, roomVars, logVars>>
    /\ UNCHANGED lockVars
    /\ UNCHANGED wsVars

\* user_ws_rx.next() is Some(Err(e)): break
recv_error(c) ==
    /\ pc[c] = "loop"
    /\ pc' = [pc EXCEPT ![c] = "disconnect"]
    /\ UNCHANGED <<path, room, my_id, cur, sink, NEXT_USER_ID, frames, roomVars, logVars>>
    /\ UNCHANGED lockVars
    /\ UNCHANGED wsVars

\* user_disconnected: users.write().await.remove(&my_id)
user_disconnected(c) ==
    /\ pc[c] = "disconnect"
    /\ users' = [users EXCEPT ![room[c]] = Remove(@, my_id[c])]
    /\ pc' = [pc EXCEPT ![c] = "return"]
    /\ UNCHANGED <<path, room, my_id, cur, sink, NEXT_USER_ID, frames>>
    /\ UNCHANGED <<rooms, nrooms, room_name, strong, dropped, logVars>>
    /\ UNCHANGED lockVars
    /\ UNCHANGED wsVars

\* user_connected returns: its Arc<ChatRoom> is dropped
drop_room(c) ==
    /\ pc[c] = "return"
    /\ DropArc(room[c])
    /\ pc' = [pc EXCEPT ![c] = "done"]
    /\ UNCHANGED <<path, room, my_id, cur, sink, NEXT_USER_ID, frames>>
    /\ UNCHANGED <<rooms, nrooms, room_name, users>>
    /\ UNCHANGED <<log_chan, log_pos, writer, file, flushed, faults>>
    /\ UNCHANGED lockVars
    /\ UNCHANGED wsVars

\* ---------------------------------------------------------- forward task
\* the message rx.next() of the forward task yields: the oldest not taken yet
NextMessage(q, pos) == q[pos + 1]

\* the task spawned by user_connected: one message from rx to user_ws_tx.send,
\* whose error is only printed
forward(c) ==
    /\ ws_pos[c] < Len(sink[c])
    /\ ws_pos' = [ws_pos EXCEPT ![c] = @ + 1]
    /\ ws_out' = [ws_out EXCEPT ![c] = Append(@, NextMessage(sink[c], ws_pos[c]))]
    /\ UNCHANGED <<connVars, roomVars, logVars, lockVars, inbound>>

\* ----------------------------------------------------------- writer task
Fault(ok) == ok \/ faults < MaxFaults
Count(ok) == IF ok THEN faults ELSE faults + 1

\* mutant of NextLine: the newest line is taken first
NewestLine(q, pos) == q[Len(q) - pos]

\* the line rx.next() yields: the oldest one not taken yet
NextLine(q, pos) == q[pos + 1]

\* File::create(&file_name).await.unwrap()
writer_create(r, ok) ==
    /\ writer[r] = "create"
    /\ Fault(ok)
    /\ faults' = Count(ok)
    /\ writer' = [writer EXCEPT ![r] = IF ok THEN "run" ELSE "panicked"]
    /\ UNCHANGED <<connVars, roomVars, log_chan, log_pos, cancel_chan, file, flushed>>
    /\ UNCHANGED lockVars
    /\ UNCHANGED wsVars

\* mutant of writer_write: a write error ends the loop
writer_write_abort(r, ok) ==
    /\ writer[r] = "run"
    /\ log_pos[r] < Len(log_chan[r])
    /\ Fault(ok)
    /\ faults' = Count(ok)
    /\ log_pos' = [log_pos EXCEPT ![r] = @ + 1]
    /\ file' = [file EXCEPT ![r] =
                  IF ok THEN Append(@, FormatRecord(NextLine(log_chan[r], log_pos[r]))) ELSE @]
    /\ writer' = [writer EXCEPT ![r] = IF ok THEN "run" ELSE "flush"]
    /\ UNCHANGED <<connVars, roomVars, log_chan, cancel_chan, flushed>>
    /\ UNCHANGED lockVars
    /\ UNCHANGED wsVars

\* select! branch Some(message) = rx.next(): write_all, an error is logged
writer_write(r, ok) ==
    /\ writer[r] = "run"
    /\ log_pos[r] < Len(log_chan[r])
    /\ Fault(ok)
    /\ faults' = Count(ok)
    /\ log_pos' = [log_pos EXCEPT ![r] = @ + 1]
    /\ file' = [file EXCEPT ![r] =
                  IF ok THEN Append(@, FormatRecord(NextLine(log_chan[r], log_pos[r]))) ELSE @]
    /\ UNCHANGED <<connVars, roomVars, log_chan, cancel_chan, writer, flushed>>
    /\ UNCHANGED lockVars
    /\ UNCHANGED wsVars

\* mutant of writer_cancel: the notice is taken and the loop goes on
writer_cancel_continue(r) ==
    /\ writer[r] = "run"
    /\ cancel_chan[r] > 0
    /\ cancel_chan' = [cancel_chan EXCEPT ![r] = @ - 1]
    /\ UNCHANGED <<connVars, roomVars, log_chan, log_pos, writer, file, flushed, faults>>
    /\ UNCHANGED lockVars
    /\ UNCHANGED wsVars

\* select! branch Some(_) = cancellation_rx.recv(): break
writer_cancel(r) ==
    /\ writer[r] = "run"
    /\ cancel_chan[r] > 0
    /\ cancel_chan' = [cancel_chan EXCEPT ![r] = @ - 1]
    /\ writer' = [writer EXCEPT ![r] = "flush"]
    /\ UNCHANGED <<connVars, roomVars, log_chan, log_pos, file, flushed, faults>>
    /\ UNCHANGED lockVars
    /\ UNCHANGED wsVars

\* log_writer.flush().await after the loop; the task ends
writer_flush(r, ok) ==
    /\ writer[r] = "flush"
    /\ Fault(ok)
    /\ faults' = Count(ok)
    /\ flushed' = [flushed EXCEPT ![r] = ok]
    /\ writer' = [writer EXCEPT ![r] = "stopped"]
    /\ UNCHANGED <<connVars, roomVars, log_chan, log_pos, cancel_chan, file>>
    /\ UNCHANGED lockVars
    /\ UNCHANGED wsVars

\* ------------------------------------------------------- task positions
\* get_room has returned and the task still owns its Arc<ChatRoom>
Holding(c) == pc[c] \in {"upgrade", "attach", "loop", "message", "disconnect", "return"}

\* the connection's tx is in room.users: inserted and not yet removed
Attached(c) == pc[c] \in {"loop", "message", "disconnect"}

\* ------------------------------------------------------------------ Next
\* the steps of connection c's task, with at most max inbound frames in total
ConnNext(c, max) ==
    \/ ws_reject(c)
    \/ \E n \in Names : get_room_prune(c, n)
    \/ get_room_lookup(c)
    \/ get_room_insert(c)
    \/ on_upgrade(c)
    \/ upgrade_failed(c)
    \/ user_connected(c)
    \/ \E f \in Frames : recv_frame(c, f, max)
    \/ user_message(c)
    \/ recv_close(c)
    \/ recv_error(c)
    \/ user_disconnected(c)
    \/ drop_room(c)

\* the steps of room r's writer task
WriterNext(r) ==
    \/ \E ok \in BOOLEAN : writer_create(r, ok)
    \/ \E ok \in BOOLEAN : writer_write(r, ok)
    \/ writer_cancel(r)
    \/ \E ok \in BOOLEAN : writer_flush(r, ok)

\* The whole system: connection tasks and writer tasks.
Next ==
    \/ \E c \in 1..MaxOpen : ConnNext(c, MaxFrames)
    \/ \E r \in RoomIds : WriterNext(r)

Spec == Init /\ [][Next]_vars

\* The connection tasks alone, one more of them.  The writer tasks touch only
\* logVars, which no connection step reads except through ReceiverGone, so
\* registry, occupants and sinks evolve here as they do in the whole system.
NextSessions == \E c \in Conns : ConnNext(c, SessFrames)

SpecSessions == Init /\ [][NextSessions]_vars

\* Shutdown of the writer tasks under the scheduler: tokio::spawn hands each
\* writer task to the runtime, which polls every task that can make progress,
\* so a writer step that stays possible is taken.  The connections are driven
\* by their peers and get no fairness.
NextShutdown ==
    \/ \E c \in 1..MaxOpen : ConnNext(c, SessFrames)
    \/ \E r \in RoomIds : WriterNext(r)

SpecShutdown ==
    Init /\ [][NextShutdown]_vars /\ \A r \in RoomIds : WF_vars(WriterNext(r))

\* ------------------------------------------------ get_room, lock by lock
\* The same get_room with the ChatRooms RwLock made explicit: every
\* rooms.write().await and rooms.read().await is a step that waits for the
\* lock, and the guard is released by the step that ends its critical section.
\* upgrade_connection calls get_room(name): the call awaits rooms.write()
get_room_call(c, n) ==
    /\ pc[c] = "idle"
    /\ path' = [path EXCEPT ![c] = n]
    /\ pc' = [pc EXCEPT ![c] = "prune"]
    /\ UNCHANGED <<room, my_id, cur, sink, NEXT_USER_ID, frames, roomVars, logVars, lockVars>>
    /\ UNCHANGED wsVars

\* RwLock::write resolves: no guard is held by any task
write_lock(c, at, to) ==
    /\ pc[c] = at
    /\ wlock = 0
    /\ rlock = {}
    /\ wlock' = c
    /\ pc' = [pc EXCEPT ![c] = to]
    /\ UNCHANGED <<path, room, my_id, cur, sink, NEXT_USER_ID, frames, roomVars, logVars, rlock>>
    /\ UNCHANGED wsVars

\* rooms.write().await of the prune
prune_lock(c) == write_lock(c, "prune", "pruning")

\* the retain under the write guard; the guard is dropped with the block
prune_unlock(c) ==
    /\ pc[c] = "pruning"
    /\ rooms' = Retain(rooms)
    /\ wlock' = 0
    /\ pc' = [pc EXCEPT ![c] = "lookup"]
    /\ UNCHANGED <<path, room, my_id, cur, sink, NEXT_USER_ID, frames>>
    /\ UNCHANGED <<nrooms, room_name, strong, users, dropped, logVars, rlock>>
    /\ UNCHANGED wsVars

\* rooms.read().await of the lookup resolves: no write guard is held
lookup_lock(c) ==
    /\ pc[c] = "lookup"
    /\ wlock = 0
    /\ rlock' = rlock \cup {c}
    /\ pc' = [pc EXCEPT ![c] = "reading"]
    /\ UNCHANGED <<path, room, my_id, cur, sink, NEXT_USER_ID, frames, roomVars, logVars, wlock>>
    /\ UNCHANGED wsVars

\* mutant of ReadGuardDropped: the read guard lives on into the insert
ReadGuardKept(held, c) == held

\* the read guard is a temporary of the if-let that ends with its statement
ReadGuardDropped(held, c) == held \ {c}

\* the lookup under the read guard; the guard is dropped before the match
lookup_unlock(c) ==
    /\ pc[c] = "reading"
    /\ lookup_or_new(c)
    /\ rlock' = ReadGuardDropped(rlock, c)
    /\ UNCHANGED wlock
    /\ UNCHANGED wsVars

\* rooms.write().await of the insert
insert_lock(c) == write_lock(c, "insert", "inserting")

\* the insert under the write guard
insert_unlock(c) ==
    /\ pc[c] = "inserting"
    /\ rooms' = Insert(rooms, path[c], room[c])
    /\ wlock' = 0
    /\ pc' = [pc EXCEPT ![c] = "upgrade"]
    /\ UNCHANGED <<path, room, my_id, cur, sink, NEXT_USER_ID, frames>>
    /\ UNCHANGED <<nrooms, room_name, strong, users, dropped, logVars, rlock>>
    /\ UNCHANGED wsVars

\* the steps of a get_room call once it was made
GetRoomNext(c) ==
    \/ prune_lock(c)
    \/ prune_unlock(c)
    \/ lookup_lock(c)
    \/ lookup_unlock(c)
    \/ insert_lock(c)
    \/ insert_unlock(c)

\* Connections whose get_room calls contend for the lock while sessions come
\* and go and rooms are destroyed; no frames are received.
NextLocks ==
    \E c \in Conns :
        \/ \E n \in Names : get_room_call(c, n)
        \/ GetRoomNext(c)
        \/ on_upgrade(c)
        \/ upgrade_failed(c)
        \/ user_connected(c)
        \/ recv_close(c)
        \/ user_disconnected(c)
        \/ drop_room(c)

\* tokio's RwLock is fair (waiters are served in order) and the runtime polls
\* every task that can make progress: a get_room step that stays possible is
\* taken.
SpecLocks ==
    Init /\ [][NextLocks]_vars /\ \A c \in Conns : WF_vars(GetRoomNext(c))

\* Delivery: the connection tasks with their forward tasks.  The writer tasks
\* do not run, so every line submitted stays in the transcript queue.
NextDelivery ==
    \E c \in 1..MaxOpen :
        \/ ConnNext(c, MaxFrames)
        \/ forward(c)

SpecDelivery == Init /\ [][NextDelivery]_vars

\* ================================================================ claims

\* C1: get_room never hands out two different ChatRoom objects for one name
\* while both are held: connections that hold a room of the same name hold
\* the same ChatRoom object.
C1_SameRoomPerName ==
    \A c, d \in Conns :
        (Holding(c) /\ Holding(d) /\ path[c] = path[d]) => room[c] = room[d]

\* C2: when a session broadcasts a text message, every other session attached
\* under the same room name gets <User#{sender_id}>: {message} in its sink,
\* and when no I/O fault has occurred the received text is submitted to the
\* transcript of the room of that name as Channel {name}, user {id}: {message}.
C2_RelayedToSameName ==
    [][\A s \in Conns :
        /\ user_message(s) =>
             \A d \in Conns \ {s} :
                 (Attached(d) /\ path[d] = path[s]) =>
                     sink'[d] = Append(sink[d], FormatMsg(my_id[s], cur[s]))
        /\ \A t \in Texts :
             (recv_frame(s, TextFrame(t), MaxFrames) /\ faults = 0) =>
                 log_chan'[room[s]] =
                     Append(log_chan[room[s]], FormatLine(path[s], my_id[s], t))]_vars

\* the records the writer would append for the lines q
Records(q) == [i \in 1..Len(q) |-> FormatRecord(q[i])]

\* C3: once the writer of a room has stopped, and no I/O fault has occurred,
\* every line submitted to the room's transcript queue is in the sink.
C3_NoLineLost ==
    \A r \in RoomIds :
        (writer[r] = "stopped" /\ faults = 0) => file[r] = Records(log_chan[r])

\* C4: a broadcast from sender s makes exactly one delivery attempt to the
\* sink of every other connection registered in s's room at that moment and
\* none to any other sink, s's own included.
C4_FanOutExcludesSender ==
    [][\A s \in Conns :
        user_message(s) =>
            \A d \in Conns :
                sink'[d] = IF d /= s /\ Attached(d) /\ room[d] = room[s]
                           THEN Append(sink[d], FormatMsg(my_id[s], cur[s]))
                           ELSE sink[d]]_vars

\* C4 witness: three occupants of one room, the message of one of them has
\* reached exactly the two others.
C4_Witness ==
    \E a, b, c \in Conns :
        /\ a /= b /\ a /= c /\ b /= c
        /\ pc[a] = "loop" /\ Attached(b) /\ Attached(c)
        /\ room[a] = room[b] /\ room[a] = room[c]
        /\ sink[a] = <<>>
        /\ \E t \in Texts : sink[b] = <<FormatMsg(my_id[a], t)>> /\ sink[c] = sink[b]

\* C5: rooms are isolated: every message in a connection's sink comes from a
\* sender attached under the same room name, and every line in a room's
\* queue or sink names that room and comes from a session of that room.
C5_Isolation ==
    /\ \A d \in Conns : \A i \in 1..Len(sink[d]) :
           \E s \in Conns : my_id[s] = sink[d][i][2] /\ path[s] = path[d]
    /\ \A r \in RoomIds : \A i \in 1..Len(log_chan[r]) :
           /\ log_chan[r][i][2] = room_name[r]
           /\ \E s \in Conns : my_id[s] = log_chan[r][i][4] /\ room[s] = r
    /\ \A r \in RoomIds : \A i \in 1..Len(file[r]) :
           /\ file[r][i][2] = room_name[r]
           /\ \E s \in Conns : my_id[s] = file[r][i][4] /\ room[s] = r

\* C5 witness: two sessions attached under different names have each sent a
\* text (the later of the two while both were attached); each room's sink
\* holds its own line only and neither sink of the sessions got a message.
C5_Witness ==
    \E s, d \in Conns :
        /\ pc[s] = "loop" /\ pc[d] = "loop" /\ path[s] /= path[d]
        /\ \E t \in Texts :
               file[room[s]] = <<FormatRecord(FormatLine(path[s], my_id[s], t))>>
        /\ \E t \in Texts :
               file[room[d]] = <<FormatRecord(FormatLine(path[d], my_id[d], t))>>
        /\ sink[s] = <<>> /\ sink[d] = <<>>

\* C6: a non-text frame from a session submits the sentinel line tagged with
\* its id to the room's transcript queue and delivers nothing to any sink.
C6_SentinelLogged ==
    [][\A c \in Conns :
        recv_frame(c, BinaryFrame, MaxFrames) =>
            /\ log_chan'[room[c]] =
                   Append(log_chan[room[c]], FormatLine(room_name[room[c]], my_id[c], SENTINEL))
            /\ sink' = sink]_vars

\* a is b with some elements left out, the order kept
RECURSIVE IsSubseq(_, _)
IsSubseq(a, b) ==
    IF a = <<>> THEN TRUE
    ELSE IF b = <<>> THEN FALSE
    ELSE IF Head(a) = Head(b) THEN IsSubseq(Tail(a), Tail(b))
    ELSE IsSubseq(a, Tail(b))

\* C7: the lines in a room's sink are at all times lines the writer has taken
\* from that room's queue, in the order in which they were submitted to it
\* (a line whose write failed is left out).
C7_SubmissionOrder ==
    \A r \in RoomIds :
        IsSubseq(file[r], Records(SubSeq(log_chan[r], 1, log_pos[r])))

\* C7 witness: two different lines submitted to one room are both in its
\* sink, in submission order, and a line submitted to another room is in
\* that room's sink only.
C7_Witness ==
    \E r, q \in RoomIds :
        /\ q /= r
        /\ Len(log_chan[r]) = 2 /\ log_chan[r][1] /= log_chan[r][2]
        /\ file[r] = Records(log_chan[r])
        /\ Len(log_chan[q]) = 1 /\ file[q] = Records(log_chan[q])

\* C8: a ChatRoom that get_room has handed out and that is still held was
\* never destroyed, so after a room's destruction get_room for its name
\* returns another one; and the registry holds at most one entry whose
\* weak reference is to a live room of a given name.
C8_FreshRoomAfterDestroy ==
    /\ \A c \in Conns : Holding(c) => ~dropped[room[c]] /\ strong[room[c]] > 0
    /\ \A k1, k2 \in DOMAIN rooms :
           (/\ strong[rooms[k1]] > 0 /\ strong[rooms[k2]] > 0
            /\ room_name[rooms[k1]] = room_name[rooms[k2]]) => k1 = k2

\* C8 witness: the last session of a room has detached and dropped it, the
\* room was destroyed, and a connection now holds another, live room of
\* that name, which the registry entry refers to.
C8_Witness ==
    \E c, e \in Conns, r \in RoomIds :
        /\ pc[e] = "done" /\ my_id[e] /= 0 /\ room[e] = r
        /\ dropped[r] /\ room_name[r] = path[c]
        /\ Holding(c) /\ room[c] /= r /\ ~dropped[room[c]]
        /\ path[c] \in DOMAIN rooms /\ rooms[path[c]] = room[c]

\* C9: once a session's detach has completed, no broadcast makes a delivery
\* attempt to its sink any more.
C9_NoDeliveryAfterDetach ==
    [][\A d \in Conns : pc[d] \in {"return", "done"} => sink'[d] = sink[d]]_vars

\* C9 witness: of three sessions of one room, b has detached and a is
\* broadcasting a message, with c still attached.
C9_Witness ==
    \E a, b, c \in Conns :
        /\ a /= b /\ a /= c /\ b /= c
        /\ room[a] = room[b] /\ room[a] = room[c]
        /\ pc[a] = "message" /\ pc[c] = "loop"
        /\ pc[b] \in {"return", "done"} /\ my_id[b] /= 0
        /\ DOMAIN users[room[a]] = {my_id[a], my_id[c]}

C11_RejectLeavesRegistry ==
    [][\A c \in Conns :
        /\ (pc[c] = "idle" /\ pc'[c] = "rejected") =>
              /\ rooms' = rooms
              /\ nrooms' = nrooms
              /\ strong' = strong
              /\ writer' = writer
              /\ path'[c] = NoPath
              /\ room'[c] = NoRoom
        /\ pc[c] = "rejected" => (pc'[c] = "rejected" /\ path'[c] = NoPath /\ room'[c] = NoRoom)
      ]_vars

\* a request was rejected while the registry holds the entry of a destroyed
\* room, which a prune would have removed
C11_Witness ==
    \E c, d \in Conns :
        /\ pc[c] = "rejected"
        /\ pc[d] = "done"
        /\ room[d] /= NoRoom
        /\ path[d] \in DOMAIN rooms
        /\ rooms[path[d]] = room[d]
        /\ strong[room[d]] = 0

\* C12: connection ids are unique for the lifetime of the process: an id,
\* once drawn, is never changed or drawn again, and every id drawn is strictly
\* greater than every id drawn before it, in whatever room and however the
\* connects interleave.
C12_UniqueIncreasingIds ==
    [][\A c \in Conns :
        my_id'[c] /= my_id[c] =>
            /\ my_id[c] = 0
            /\ \A d \in Conns : my_id[d] < my_id'[c]
      ]_vars

\* a session ended, and a session of another room holds a greater id while a
\* third one holds a third id
C12_Witness ==
    \E c, d, e \in Conns :
        /\ pc[c] = "done" /\ my_id[c] /= 0
        /\ my_id[d] > my_id[c]
        /\ my_id[e] > my_id[d]
        /\ path[d] /= path[c]
        /\ Attached(d)

\* C13: the prune of get_room removes exactly the registry entries whose
\* ChatRoom is destroyed (strong count 0) at that moment, under whatever name,
\* and keeps every entry whose ChatRoom is alive; no other step makes an
\* entry disappear, in particular not the step that destroys the ChatRoom.
C13_PruneOnlyInGetRoom ==
    [][/\ \A c \in Conns :
            (pc[c] = "idle" /\ pc'[c] = "lookup") =>
                /\ DOMAIN rooms' = {n \in DOMAIN rooms : strong[rooms[n]] > 0}
                /\ \A n \in DOMAIN rooms' : rooms'[n] = rooms[n]
       /\ (\E n \in DOMAIN rooms : n \notin DOMAIN rooms') =>
            \E c \in Conns : pc[c] = "idle" /\ pc'[c] = "lookup"
       /\ (\E r \in RoomIds : strong[r] > 0 /\ strong'[r] = 0) => rooms' = rooms
      ]_vars

\* a get_room for one name has pruned the entry of a destroyed room of the
\* other name
C13_Witness ==
    \E c, e \in Conns :
        /\ pc[c] = "lookup"
        /\ pc[e] = "done"
        /\ room[e] /= NoRoom
        /\ dropped[room[e]]
        /\ path[e] /= path[c]
        /\ DOMAIN rooms = {}

\* how many cancel notices the writer of r was sent: pending or already taken
Signalled(r) == cancel_chan[r] + (IF writer[r] \in {"flush", "stopped"} THEN 1 ELSE 0)

\* the shutdown discipline of Drop for ChatRoom, with alive the positions a
\* writer task may be in while its ChatRoom has an owner
Shutdown(alive) ==
    /\ \A r \in RoomIds :
        /\ Signalled(r)' <= 1
        /\ strong'[r] > 0 => (Signalled(r)' = 0 /\ ~dropped'[r] /\ writer'[r] \in alive)
        /\ cancel_chan'[r] > cancel_chan[r] => (strong[r] = 1 /\ strong'[r] = 0)
        /\ (strong[r] = 1 /\ strong'[r] = 0 /\ writer[r] \in alive /\ writer[r] /= "panicked") =>
               cancel_chan'[r] = cancel_chan[r] + 1
        /\ (strong[r] = 1 /\ strong'[r] = 0) => dropped'[r]
        /\ dropped[r] => (strong'[r] = 0 /\ log_chan'[r] = log_chan[r])

\* C14 as stated: the cancel notice is sent exactly once and only by the drop
\* of the last owner; while a ChatRoom has an owner its writer is not signalled
\* and is Running (started, in its loop or about to enter it); no line enters
\* the queue after the notice.
C14_RunningWhileHeld == [][Shutdown({"create", "run"})]_vars

\* C14 amended: the cancel notice is sent at most once and only by the drop
\* of the last owner, exactly once when the writer task is alive then; while a
\* ChatRoom has an owner its writer is not signalled and has neither begun to
\* flush nor stopped: it is Running, or dead because File::create failed; no
\* line enters the queue after the ChatRoom was dropped.
C14_SignalOnLastDrop == [][Shutdown({"create", "run", "panicked"})]_vars

\* one session of a room has ended and dropped its reference while another
\* one is still attached: the writer runs, unsignalled, with lines submitted
C14_Witness ==
    \E c, d \in Conns :
        /\ pc[c] = "done" /\ my_id[c] /= 0
        /\ Attached(d)
        /\ room[c] = room[d]
        /\ writer[room[d]] = "run"
        /\ cancel_chan[room[d]] = 0
        /\ Len(log_chan[room[d]]) >= 1

\* C16: a write error on one transcript line does not stop the writer: the
\* step on which write_all fails takes the line from the queue without
\* writing it (skipped, not retried) and leaves the writer Running; every
\* line written is the oldest one not yet taken, and a Running writer with a
\* line pending can always take it.
C16_WriteErrorSkipsLine ==
    [][\A r \in RoomIds :
        /\ (/\ faults' > faults
            /\ writer[r] = "run"
            /\ (log_pos'[r] /= log_pos[r] \/ writer'[r] /= writer[r])) =>
               /\ writer'[r] = "run"
               /\ log_pos'[r] = log_pos[r] + 1
               /\ file'[r] = file[r]
               /\ log_chan'[r] = log_chan[r]
        /\ file'[r] /= file[r] =>
               /\ log_pos'[r] = log_pos[r] + 1
               /\ file'[r] = Append(file[r], FormatRecord(log_chan[r][log_pos[r] + 1]))
        /\ (writer[r] = "run" /\ log_pos[r] < Len(log_chan[r])) => ENABLED writer_write(r, TRUE)
      ]_vars

\* the write of the first line failed and the second line was written after it
C16_Witness ==
    \E r \in RoomIds :
        /\ faults = 1
        /\ writer[r] = "run"
        /\ log_pos[r] = 2
        /\ file[r] = <<FormatRecord(log_chan[r][2])>>
        /\ log_chan[r][1] /= log_chan[r][2]

\* C17: a broadcast never touches the UserRegistry and makes its delivery
\* attempt to every other registered sink, whatever the state of any one of
\* them: the entry of a session whose stream has already ended stays
\* registered until that session's own user_disconnected, and the sinks of all
\* other occupants still get the message.
C17_BroadcastKeepsRegistry ==
    [][\A s \in Conns :
        (pc[s] = "message" /\ pc'[s] = "loop") =>
            /\ users' = users
            /\ \A d \in Conns \ {s} :
                 (my_id[d] \in DOMAIN users[room[s]] /\ users[room[s]][my_id[d]] = d) =>
                     sink'[d] = Append(sink[d], FormatMsg(my_id[s], cur[s]))
      ]_vars

\* a broadcast has gone to a room in which one occupant's stream has ended
\* and is not yet detached: its entry is still registered, and it and the
\* third occupant hold the message
C17_Witness ==
    \E s, d, e \in Conns :
        /\ s /= d /\ s /= e /\ d /= e
        /\ room[s] = room[d] /\ room[s] = room[e]
        /\ pc[s] = "loop" /\ pc[d] = "disconnect" /\ pc[e] = "loop"
        /\ my_id[d] \in DOMAIN users[room[s]]
        /\ sink[d] = <<FormatMsg(my_id[s], "hi")>>
        /\ sink[e] = sink[d]

\* C18: a UserRegistry entry for an id exists exactly while its session is
\* attached, that is from user_connected to user_disconnected, and it is in
\* the registry of the session's own room only; it is gone once the receive
\* loop has ended and user_disconnected has run, while the session still owns
\* its room reference.
C18_EntryIffAttached ==
    /\ \A r \in RoomIds : \A id \in DOMAIN users[r] : my_id[users[r][id]] = id
    /\ \A c \in Conns : \A r \in RoomIds :
          (my_id[c] \in DOMAIN users[r]) <=> (Attached(c) /\ room[c] = r)
    /\ \A c \in Conns : Attached(c) => strong[room[c]] > 0
    /\ \A c \in Conns : pc[c] = "return" =>
          (strong[room[c]] > 0 /\ \A r \in RoomIds : my_id[c] \notin DOMAIN users[r])
    /\ \A r1, r2 \in RoomIds : r1 /= r2 => DOMAIN users[r1] \cap DOMAIN users[r2] = {}

\* one session has detached and still owns its room, a second one is attached
\* to the same room and a third one to another room
C18_Witness ==
    \E c, d, e \in Conns :
        /\ pc[c] = "return"
        /\ Attached(d) /\ room[d] = room[c]
        /\ Attached(e) /\ room[e] /= room[c]
        /\ DOMAIN users[room[c]] = {my_id[d]}
        /\ DOMAIN users[room[e]] = {my_id[e]}

\* C19: transcript failures are invisible to clients: a text frame takes its
\* session to the broadcast whether or not the submission to the transcript
\* succeeded, the broadcast reaches every other occupant of the room, and
\* neither a failed submission nor an I/O fault of the writer task changes
\* any session's position, any UserRegistry or any reference count.
C19_TranscriptFailureInvisible ==
    [][/\ \A s \in Conns : \A t \in Texts :
            recv_frame(s, TextFrame(t), MaxFrames) =>
                /\ pc'[s] = "message"
                /\ cur'[s] = t
                /\ users' = users
                /\ strong' = strong
       /\ \A s \in Conns :
            (pc[s] = "message" /\ pc'[s] /= "message") =>
                /\ pc'[s] = "loop"
                /\ users' = users
                /\ \A d \in Conns \ {s} :
                     (Attached(d) /\ room[d] = room[s]) =>
                         sink'[d] = Append(sink[d], FormatMsg(my_id[s], cur[s]))
       /\ faults' /= faults => UNCHANGED <<pc, users, sink, strong>>
      ]_vars

\* the writer of a room died at File::create before any line was accepted;
\* a message sent in that room nevertheless reached the other occupant, and
\* the sender is back in its receive loop
C19_Witness ==
    \E s, d \in Conns :
        /\ s /= d
        /\ pc[s] = "loop"
        /\ Attached(d)
        /\ room[s] = room[d]
        /\ writer[room[s]] = "panicked"
        /\ log_chan[room[s]] = <<>>
        /\ Len(sink[d]) >= 1

\* the end of the writer task: it leaves its loop only on the cancel notice
\* of a dropped ChatRoom, appends nothing after that, stops only through the
\* flush, and once stopped does nothing more
FlushOnce ==
    \A r \in RoomIds :
        /\ (writer'[r] = "flush" /\ writer[r] /= "flush") => (writer[r] = "run" /\ dropped[r])
        /\ writer[r] \in {"flush", "stopped"} => (file'[r] = file[r] /\ log_pos'[r] = log_pos[r])
        /\ (writer'[r] = "stopped" /\ writer[r] /= "stopped") => writer[r] = "flush"
        /\ writer[r] = "stopped" => (writer'[r] = "stopped" /\ flushed'[r] = flushed[r])
        /\ flushed'[r] /= flushed[r] => (writer[r] = "flush" /\ writer'[r] = "stopped")

\* C15 as stated: after its ChatRoom is dropped every writer task eventually
\* stops, whatever is left in the queue, flushing exactly once, after its last
\* append and just before it stops.
C15_StopsAfterDrop ==
    /\ \A r \in RoomIds : dropped[r] ~> (writer[r] = "stopped")
    /\ [][FlushOnce]_vars

\* C15 amended: after its ChatRoom is dropped every writer task eventually
\* stops or has died at File::create; a writer task that got past File::create
\* eventually stops, whatever is left in the queue, flushing exactly once,
\* after its last append and just before it stops.
C15_StopsOrDied ==
    /\ \A r \in RoomIds : dropped[r] ~> (writer[r] \in {"stopped", "panicked"})
    /\ \A r \in RoomIds : (dropped[r] /\ writer[r] \in {"run", "flush"}) ~> (writer[r] = "stopped")
    /\ [][FlushOnce]_vars

\* the writers of two dropped rooms have stopped, one of them after a
\* successful flush with a line still in its queue
C15_Witness ==
    \E r, q \in RoomIds :
        /\ r /= q
        /\ dropped[r] /\ writer[r] = "stopped" /\ flushed[r] /\ log_pos[r] < Len(log_chan[r])
        /\ dropped[q] /\ writer[q] = "stopped"

\* a get_room call is under way
InGetRoom(c) == pc[c] \in {"prune", "pruning", "lookup", "reading", "insert", "inserting"}

\* C20: get_room is deadlock-free: a task holds a guard of the registry lock
\* only inside one of the three critical sections, never a read guard while
\* it waits for the write lock, write and read guards exclude each other, and
\* under a fair lock every get_room call returns, whatever other get_room
\* calls and room destructions run beside it.
C20_GetRoomReturns ==
    /\ [](\A c \in Conns :
            /\ c \in rlock <=> pc[c] = "reading"
            /\ wlock = c <=> pc[c] \in {"pruning", "inserting"}
            /\ pc[c] \in {"prune", "insert"} => (c \notin rlock /\ wlock /= c))
    /\ [](wlock /= 0 => rlock = {})
    /\ \A c \in Conns : InGetRoom(c) ~> (pc[c] = "upgrade")

\* all three get_room calls have returned, two of them after building a room
\* for the same name, while the room the third one had built is destroyed
C20_Witness ==
    \E c, d, e \in Conns :
        /\ c /= d /\ pc[c] = "upgrade" /\ pc[d] = "upgrade"
        /\ path[c] = path[d] /\ room[c] /= room[d]
        /\ pc[e] = "done" /\ room[e] \notin {NoRoom, room[c], room[d]} /\ dropped[room[e]]
        /\ wlock = 0 /\ rlock = {}

\* the payloads of the messages of sender id in an outbound queue, in order
SinkFrom(q, id) ==
    LET of_id(m) == m[2] = id
        got == SelectSeq(q, of_id)
    IN [i \in 1..Len(got) |-> got[i][4]]

\* the payloads of the lines of user id in a transcript queue, in order
LinesFrom(q, id) ==
    LET of_id(l) == l[4] = id
        got == SelectSeq(q, of_id)
    IN [i \in 1..Len(got) |-> got[i][6]]

\* a occurs in b as one unbroken run
IsInfix(a, b) == \E i \in 0..(Len(b) - Len(a)) : SubSeq(b, i + 1, i + Len(a)) = a

\* a is the tail of b
IsSuffix(a, b) == Len(a) <= Len(b) /\ SubSeq(b, Len(b) - Len(a) + 1, Len(b)) = a

\* the text messages a session has broadcast so far: those it received, but
\* for the one between log_message and user_message
Broadcasted(c) ==
    IF pc[c] = "message" THEN SubSeq(inbound[c], 1, Len(inbound[c]) - 1) ELSE inbound[c]

\* C21: per-sender FIFO delivery: the messages of a sender A in the outbound
\* queue of any other session B are an unbroken run of the messages A
\* broadcast, in the order A received them, and the run reaches up to A's
\* latest broadcast while both are attached to the same room; the lines of A
\* in the transcript queue of its room are the texts A received, in that
\* order (all of them while the writer task has not ended, the first ones
\* otherwise); each forward task hands its queue on in queue order; all this
\* whatever the other session sends in between.
C21_PerSenderFifo ==
    /\ \A a \in Conns : my_id[a] /= 0 =>
          /\ LET lines == LinesFrom(log_chan[room[a]], my_id[a]) IN
                /\ Len(lines) <= Len(inbound[a])
                /\ lines = SubSeq(inbound[a], 1, Len(lines))
                /\ ~ReceiverGone(room[a]) => lines = inbound[a]
          /\ \A b \in Conns \ {a} :
                /\ IsInfix(SinkFrom(sink[b], my_id[a]), Broadcasted(a))
                /\ (Attached(a) /\ Attached(b) /\ room[a] = room[b]) =>
                       IsSuffix(SinkFrom(sink[b], my_id[a]), Broadcasted(a))
    /\ \A b \in Conns : ws_out[b] = SubSeq(sink[b], 1, ws_pos[b])

\* A sent hi and then x while B was attached and B sent a message of its own
\* in between: B's queue holds A's two messages in that order and has been
\* forwarded, and the transcript queue holds A's lines around B's line
C21_Witness ==
    \E a, b \in Conns :
        /\ a /= b
        /\ Attached(a) /\ Attached(b) /\ room[a] = room[b]
        /\ inbound[a] = <<"hi", "x">>
        /\ sink[b] = <<FormatMsg(my_id[a], "hi"), FormatMsg(my_id[a], "x")>>
        /\ ws_out[b] = sink[b]
        /\ Len(log_chan[room[a]]) = 3
        /\ log_chan[room[a]][1][4] = my_id[a]
        /\ log_chan[room[a]][2][4] = my_id[b]
        /\ log_chan[room[a]][3][4] = my_id[a]
        /\ Len(sink[a]) = 1

====
